---- MODULE Spec2Model ----
(***************************************************************************)
(* Model of the RazorFS memory-safety probe harness                        *)
(* (tests/safety/test_memory_safety.py): MemorySafetyTester.run_all_tests  *)
(* drives four probe methods in sequence; each probe creates a temporary   *)
(* directory, writes a C source, compiles it, runs the binary through      *)
(* run_command and classifies the captured output; generate_report writes  *)
(* the accumulated results and main turns its return value into the        *)
(* process exit status.                                                    *)
(*                                                                         *)
(* Text (stdout, stderr, exception messages) is a sequence of tokens; the  *)
(* Python test `needle in text` is contiguous-subsequence containment.     *)
(* Python's None is the empty set and a present value x is {x}.            *)
(***************************************************************************)
EXTENDS Integers, Sequences, FiniteSets, TLC

VARIABLES
    results,     \* self.results: total_tests, passed_tests, failed_tests, tests
    pc,          \* position of the harness process in main / run_all_tests / probe
    idx,         \* 1-based position of the for loop in the tests list
    tmpdir,      \* the running probe's `tmpdir` local: None or {name}
    fs_tmp,      \* temporary directories that exist on the file system
    captured,    \* last (returncode, stdout, stderr) bound by the running probe, or None
    child,       \* what the child of that run_command call did, or None
    ret,         \* value returned by test_func(), or None
    exc,         \* message of the exception raised by test_func(), or None
    test_result, \* the test_result local of run_all_tests, or None
    events,      \* per probe name: what happened to its pipeline, as the environment saw it
    execCount,   \* per probe name: executions of the probe's compiled binary
    compileCount,\* per probe name: invocations of the compiler
    reportFile,  \* content of memory_safety_report.json: None or {text}
    reportCalls, \* number of times generate_report was entered
    success,     \* main's `success` local: None or {value of generate_report()}
    exitStatus,  \* exit status of the harness process: None or {code}
    testers,     \* further MemorySafetyTester instances at work next to each other
    automation   \* the automation script's run_command, its child and the two pipes

vars == <<results, pc, idx, tmpdir, fs_tmp, captured, child, ret, exc, test_result,
          events, execCount, compileCount, reportFile, reportCalls, success,
          exitStatus, testers, automation>>

----------------------------------------------------------------------------
(* Bounds of the model *)

\* longest captured stdout, in tokens
MaxStdoutLen == 2
\* longest captured stderr, in tokens
MaxStderrLen == 1
\* number of distinct names tempfile can hand out
MaxTmpNames == 2

----------------------------------------------------------------------------
(* Values *)

None == {}
Some(x) == {x}
The(s) == CHOOSE x \in s : TRUE

\* all token sequences over vocab of length at most n
Texts(vocab, n) == UNION {[1..k -> vocab] : k \in 0..n}

\* Python `needle in hay` on str
Contains(hay, needle) ==
    \E i \in 0..(Len(hay) - Len(needle)) :
        \A j \in 1..Len(needle) : hay[i + j] = needle[j]

StdoutVocab == {"Memory leak", " detected", "ALL TESTS PASSED"}
StderrVocab == {"AddressSanitizer", "buffer-overflow", "LeakSanitizer"}

TimedOutText == <<"Command timed out">>

\* what a child process started by subprocess.run can do
Exit(rc, out, err) == [kind |-> "exit", rc |-> rc, out |-> out, err |-> err]
TimeoutExpired == [kind |-> "timeout", rc |-> 0, out |-> <<>>, err |-> <<>>]
SpawnFailure(msg) == [kind |-> "error", rc |-> 0, out |-> <<>>, err |-> msg]

\* run_command whose timeout branch returns no message
run_command_unmarked(o) ==
    CASE o.kind = "exit"    -> <<o.rc, o.out, o.err>>
      [] o.kind = "timeout" -> <<0 - 1, <<>>, <<>>>>
      [] OTHER              -> <<0 - 1, <<>>, o.err>>

\* MemorySafetyTester.run_command: (returncode, stdout, stderr); never raises
run_command(o) ==
    CASE o.kind = "exit"    -> <<o.rc, o.out, o.err>>
      [] o.kind = "timeout" -> <<0 - 1, <<>>, TimedOutText>>
      [] OTHER              -> <<0 - 1, <<>>, o.err>>

----------------------------------------------------------------------------
(* The probes *)

\* run_all_tests: the tests list, in registration order
tests ==
    << [name |-> "Buffer Overflow Detection", func |-> "test_buffer_overflow_detection"],
       [name |-> "Memory Leak Detection",     func |-> "test_memory_leak_detection"],
       [name |-> "NULL Pointer Safety",       func |-> "test_null_pointer_safety"],
       [name |-> "Valgrind Integration",      func |-> "test_valgrind_integration"] >>

ProbeNames == {tests[i].name : i \in 1..Len(tests)}

\* compile_with_asan with the returncode test widened to the -1 of a timeout
compile_with_asan_timeout_ok(r) == <<r[1] <= 0, r[2], r[3]>>

\* compile_with_asan: (success, stdout, stderr) from the compiler's run_command result
compile_with_asan(r) == <<r[1] = 0, r[2], r[3]>>

\* test_valgrind_integration compiles through run_command itself and tests returncode
valgrind_compile_ok(r) == r[1] = 0

\* the presence test taking only exit status 1 of `which` as absence
valgrind_available_unless_1(r) == r[1] # 1

\* test_valgrind_integration: `which valgrind` says the tool is there
valgrind_available(r) == r[1] = 0

\* test_buffer_overflow_detection: asan_detected
asan_detected(r) ==
    Contains(r[3], <<"AddressSanitizer">>) \/ Contains(r[3], <<"buffer-overflow">>)

\* leak_detected looking for the tracker's marker in another letter case
leak_detected_other_case(r) ==
    Contains(r[3], <<"LeakSanitizer">>) \/ Contains(r[2], <<"memory leak">>)

\* test_memory_leak_detection: leak_detected
leak_detected(r) ==
    Contains(r[3], <<"LeakSanitizer">>) \/ Contains(r[2], <<"Memory leak">>)

\* test_memory_leak_detection: the value returned after the binary ran
leak_result(r) ==
    IF leak_detected(r) THEN TRUE
    ELSE Contains(r[2], <<"Memory leak", " detected">>)

\* test_null_pointer_safety: success
null_success(r) == r[1] = 0 /\ Contains(r[2], <<"ALL TESTS PASSED">>)

\* test_valgrind_integration: success
valgrind_success(r) == r[1] = 0

\* the value a probe method returns once its binary has run with result r
Classify(func, r) ==
    CASE func = "test_buffer_overflow_detection" -> asan_detected(r)
      [] func = "test_memory_leak_detection"     -> leak_result(r)
      [] func = "test_null_pointer_safety"       -> null_success(r)
      [] OTHER                                   -> valgrind_success(r)

\* did the probe's compile step succeed, given the compiler's run_command result
CompileSucceeded(func, r) ==
    IF func = "test_valgrind_integration" THEN valgrind_compile_ok(r)
    ELSE compile_with_asan(r)[1]

----------------------------------------------------------------------------
(* The environment: what child processes and the file system can do *)

StdoutTexts == Texts(StdoutVocab, MaxStdoutLen)
StderrTexts == Texts(StderrVocab, MaxStderrLen)

\* exit codes of a probe binary: clean, or failed / aborted by the sanitizer
ExitCodes == {0, 1}

\* outcomes of running a compiled probe binary (directly or under valgrind)
ExecOutcomes ==
    {Exit(rc, out, err) : rc \in ExitCodes, out \in StdoutTexts, err \in StderrTexts}
    \cup {TimeoutExpired, SpawnFailure(<<"Permission denied">>)}

\* outcomes of the gcc command line: built, rejected the source, gcc not installed
\* (the shell exits 127), hung, or the shell could not be spawned
CompileOutcomes ==
    { Exit(0, <<>>, <<>>),
      Exit(0, <<>>, <<"warning: unused parameter">>),
      Exit(1, <<>>, <<"error: test_framework.h: No such file or directory">>),
      Exit(127, <<>>, <<"gcc: not found">>),
      TimeoutExpired,
      SpawnFailure(<<"Resource temporarily unavailable">>) }

\* outcomes of `which valgrind`
WhichOutcomes ==
    { Exit(0, <<"/usr/bin/valgrind">>, <<>>),
      Exit(1, <<>>, <<>>),
      TimeoutExpired,
      SpawnFailure(<<"Resource temporarily unavailable">>) }

\* message of the OSError raised by tempfile.TemporaryDirectory()
MkdtempErrors == {<<"No space left on device">>}

\* message of the OSError raised by open(source_file, 'w') / f.write
OpenErrors == {<<"Permission denied">>}

\* messages of the OSError that a probe method can raise
OSErrors == MkdtempErrors \cup OpenErrors

TmpNames == 1..MaxTmpNames

----------------------------------------------------------------------------
(* MemorySafetyTester.__init__ and the initial state of main *)

InitialResults ==
    [total_tests |-> 0, passed_tests |-> 0, failed_tests |-> 0, tests |-> <<>>]

Init ==
    /\ results = InitialResults
    /\ pc = "loop"
    /\ idx = 1
    /\ tmpdir = None
    /\ fs_tmp = {}
    /\ captured = None
    /\ child = None
    /\ ret = None
    /\ exc = None
    /\ test_result = None
    /\ events = [n \in ProbeNames |-> {}]
    /\ execCount = [n \in ProbeNames |-> 0]
    /\ compileCount = [n \in ProbeNames |-> 0]
    /\ reportFile = None
    /\ reportCalls = 0
    /\ success = None
    /\ exitStatus = None
    /\ testers = <<>>
    /\ automation = <<>>

cur == tests[idx]

\* the running probe's events with e added
Happened(e) == [events EXCEPT ![cur.name] = @ \cup {e}]

\* the compiler produced the binary: it ran to completion and exited 0
Built(o) == o.kind = "exit" /\ o.rc = 0

\* `which valgrind` ran to completion and found the tool
ToolFound(o) == o.kind = "exit" /\ o.rc = 0

\* a directory made with mkdtemp and never removed
Cleanup_leak ==
    /\ tmpdir' = None
    /\ UNCHANGED fs_tmp

\* leaving the `with tempfile.TemporaryDirectory()` block removes the directory
Cleanup ==
    /\ fs_tmp' = fs_tmp \ tmpdir
    /\ tmpdir' = None

----------------------------------------------------------------------------
(* run_all_tests *)

\* for test_name, test_func in tests: self.results['total_tests'] += 1, then
\* the try block calls test_func()
LoopIter ==
    /\ pc = "loop"
    /\ idx <= Len(tests)
    /\ results' = [results EXCEPT !.total_tests = @ + 1]
    /\ pc' = IF cur.func = "test_valgrind_integration" THEN "which" ELSE "mktemp"
    /\ captured' = None
    /\ child' = None
    /\ ret' = None
    /\ exc' = None
    /\ test_result' = None
    /\ UNCHANGED <<idx, tmpdir, fs_tmp, events, execCount, compileCount,
                   reportFile, reportCalls, success, exitStatus>>
    /\ UNCHANGED <<testers, automation>>

\* test_valgrind_integration: returncode, _, _ = self.run_command("which valgrind");
\* a non-zero returncode returns True before anything is created
WhichValgrind ==
    /\ pc = "which"
    /\ \E o \in WhichOutcomes :
         LET r == run_command(o) IN
         /\ captured' = Some(r)
         /\ child' = Some(o)
         /\ events' = Happened(CASE ToolFound(o)     -> "tool_found"
                                  [] o.kind = "exit" -> "tool_missing"
                                  [] OTHER           -> "which_broken")
         /\ IF valgrind_available(r)
            THEN /\ pc' = "mktemp"
                 /\ UNCHANGED ret
            ELSE /\ pc' = "returned"
                 /\ ret' = Some(TRUE)
    /\ UNCHANGED <<results, idx, tmpdir, fs_tmp, exc, test_result, execCount,
                   compileCount, reportFile, reportCalls, success, exitStatus>>
    /\ UNCHANGED <<testers, automation>>

\* with tempfile.TemporaryDirectory() as tmpdir: a fresh directory, or OSError
MkTemp ==
    /\ pc = "mktemp"
    /\ \/ \E d \in TmpNames \ fs_tmp :
            /\ fs_tmp' = fs_tmp \cup {d}
            /\ tmpdir' = Some(d)
            /\ events' = Happened("tmpdir")
            /\ pc' = "write"
            /\ UNCHANGED exc
       \/ \E m \in MkdtempErrors :
            /\ exc' = Some(m)
            /\ events' = Happened("raised")
            /\ pc' = "except"
            /\ UNCHANGED <<fs_tmp, tmpdir>>
    /\ UNCHANGED <<results, idx, captured, child, ret, test_result, execCount,
                   compileCount, reportFile, reportCalls, success, exitStatus>>
    /\ UNCHANGED <<testers, automation>>

\* with open(source_file, 'w') as f: f.write(...): written, or OSError, which
\* leaves the with block of the temporary directory
WriteSource ==
    /\ pc = "write"
    /\ \/ /\ pc' = "compile"
          /\ UNCHANGED <<exc, events, fs_tmp, tmpdir>>
       \/ \E m \in OpenErrors :
            /\ exc' = Some(m)
            /\ events' = Happened("raised")
            /\ pc' = "except"
            /\ Cleanup
    /\ UNCHANGED <<results, idx, captured, child, ret, test_result, execCount,
                   compileCount, reportFile, reportCalls, success, exitStatus>>
    /\ UNCHANGED <<testers, automation>>

\* the compile step: compile_with_asan(source_file, binary_file), or the gcc
\* command of test_valgrind_integration; `if not success: return False`
Compile ==
    /\ pc = "compile"
    /\ \E o \in CompileOutcomes :
         LET r == run_command(o) IN
         /\ captured' = Some(r)
         /\ child' = Some(o)
         /\ compileCount' = [compileCount EXCEPT ![cur.name] = @ + 1]
         /\ events' = Happened(IF Built(o) THEN "compiled" ELSE "compile_failed")
         /\ IF CompileSucceeded(cur.func, r)
            THEN /\ pc' = "execute"
                 /\ UNCHANGED <<ret, fs_tmp, tmpdir>>
            ELSE /\ pc' = "returned"
                 /\ ret' = Some(FALSE)
                 /\ Cleanup
    /\ UNCHANGED <<results, idx, exc, test_result, execCount,
                   reportFile, reportCalls, success, exitStatus>>
    /\ UNCHANGED <<testers, automation>>

\* the execute step: self.run_command(binary_file) or the valgrind command,
\* then the classification of what was captured and the return out of the with block
Execute ==
    /\ pc = "execute"
    /\ \E o \in ExecOutcomes :
         LET r == run_command(o) IN
         /\ captured' = Some(r)
         /\ child' = Some(o)
         /\ execCount' = [execCount EXCEPT ![cur.name] = @ + 1]
         /\ events' = Happened(IF o.kind = "timeout" THEN "timed_out" ELSE "executed")
         /\ ret' = Some(Classify(cur.func, r))
    /\ Cleanup
    /\ pc' = "returned"
    /\ UNCHANGED <<results, idx, exc, test_result, compileCount,
                   reportFile, reportCalls, success, exitStatus>>
    /\ UNCHANGED <<testers, automation>>

\* the try block bumping total_tests a second time
CountOutcome_also_total(res, ok) ==
    IF ok THEN [res EXCEPT !.passed_tests = @ + 1, !.total_tests = @ + 1]
    ELSE [res EXCEPT !.failed_tests = @ + 1, !.total_tests = @ + 1]

\* the counter the try block bumps once test_func() has returned
CountOutcome(res, ok) ==
    IF ok THEN [res EXCEPT !.passed_tests = @ + 1]
    ELSE [res EXCEPT !.failed_tests = @ + 1]

\* the except block without its failed_tests += 1
CountCrash_forgotten(res) == res

\* the counter the except block bumps
CountCrash(res) == [res EXCEPT !.failed_tests = @ + 1]

\* the append placed inside the try block: a crashed probe is not appended
AppendResult_in_try(res, tr) ==
    IF tr.error # None THEN res ELSE [res EXCEPT !.tests = Append(@, tr)]

\* results['tests'].insert(0, test_result)
AppendResult_prepend(res, tr) == [res EXCEPT !.tests = <<tr>> \o @]

\* self.results['tests'].append(test_result)
AppendResult(res, tr) == [res EXCEPT !.tests = Append(@, tr)]

\* the try block putting the captured stderr of a failed probe into 'error'
ReturnResult_with_detail(name, ok) ==
    [name |-> name, passed |-> ok,
     error |-> IF ok THEN None ELSE Some(The(captured)[3])]

\* the test_result built in the try block
ReturnResult(name, ok) == [name |-> name, passed |-> ok, error |-> None]

\* the except block dropping str(e)
CrashResult_no_message(name, msg) == [name |-> name, passed |-> FALSE, error |-> None]

\* the test_result built in the except block
CrashResult(name, msg) == [name |-> name, passed |-> FALSE, error |-> Some(msg)]

\* try: success = test_func(); test_result = {...}; passed_tests or failed_tests += 1
RecordReturn ==
    /\ pc = "returned"
    /\ test_result' = Some(ReturnResult(cur.name, The(ret)))
    /\ results' = CountOutcome(results, The(ret))
    /\ pc' = "append"
    /\ UNCHANGED <<idx, tmpdir, fs_tmp, captured, child, ret, exc, events, execCount,
                   compileCount, reportFile, reportCalls, success, exitStatus>>
    /\ UNCHANGED <<testers, automation>>

\* except Exception as e: test_result = {..., 'error': str(e)}; failed_tests += 1
HandleException ==
    /\ pc = "except"
    /\ test_result' = Some(CrashResult(cur.name, The(exc)))
    /\ results' = CountCrash(results)
    /\ pc' = "append"
    /\ UNCHANGED <<idx, tmpdir, fs_tmp, captured, child, ret, exc, events, execCount,
                   compileCount, reportFile, reportCalls, success, exitStatus>>
    /\ UNCHANGED <<testers, automation>>

\* self.results['tests'].append(test_result), and on to the next test
AppendTestResult ==
    /\ pc = "append"
    /\ results' = AppendResult(results, The(test_result))
    /\ idx' = idx + 1
    /\ pc' = "loop"
    /\ UNCHANGED <<tmpdir, fs_tmp, captured, child, ret, exc, test_result, events, execCount,
                   compileCount, reportFile, reportCalls, success, exitStatus>>
    /\ UNCHANGED <<testers, automation>>

\* the for loop is exhausted: run_all_tests returns and main calls generate_report
LoopExit ==
    /\ pc = "loop"
    /\ idx > Len(tests)
    /\ pc' = "report"
    /\ reportCalls' = reportCalls + 1
    /\ UNCHANGED <<results, idx, tmpdir, fs_tmp, captured, child, ret, exc, test_result,
                   events, execCount, compileCount, reportFile, success, exitStatus>>
    /\ UNCHANGED <<testers, automation>>

----------------------------------------------------------------------------
(* generate_report and main *)

\* the exit status of the interpreter when an exception leaves main
UncaughtExceptionStatus == 1

\* json.dump of an int, a bool, a str and an optional str, as tokens of the text
Digits == <<"0", "1", "2", "3", "4", "5", "6", "7", "8", "9">>

RECURSIVE JsonInt(_)
JsonInt(n) ==
    IF n < 10 THEN <<Digits[n + 1]>>
    ELSE JsonInt(n \div 10) \o <<Digits[(n % 10) + 1]>>

JsonBool(b) == IF b THEN <<"true">> ELSE <<"false">>

JsonStr(text) == <<"\"">> \o text \o <<"\"">>

JsonOpt(e) == IF e = None THEN <<"null">> ELSE JsonStr(The(e))

\* json.dump of one entry of results['tests'], keys in insertion order
JsonTest(t) ==
    <<"{", "name:">> \o JsonStr(<<t.name>>) \o <<",", "passed:">> \o JsonBool(t.passed)
        \o <<",", "error:">> \o JsonOpt(t.error) \o <<"}">>

RECURSIVE JsonTests(_)
JsonTests(ts) ==
    IF ts = <<>> THEN <<>>
    ELSE JsonTest(Head(ts)) \o (IF Len(ts) > 1 THEN <<",">> ELSE <<>>) \o JsonTests(Tail(ts))

\* json.dump(self.results, f, indent=2): the text of the report
json_dump(res) ==
    <<"{", "total_tests:">> \o JsonInt(res.total_tests)
        \o <<",", "passed_tests:">> \o JsonInt(res.passed_tests)
        \o <<",", "failed_tests:">> \o JsonInt(res.failed_tests)
        \o <<",", "tests:", "[">> \o JsonTests(res.tests) \o <<"]", "}">>

\* open(report_file, 'a'): the new text after what the file already holds
WriteReport_append(old, text) == IF old = None THEN Some(text) ELSE Some(The(old) \o text)

\* with open(report_file, 'w') as f: the file holds the new text only
WriteReport(old, text) == Some(text)

\* generate_report: mkdir, open and json.dump of self.results, the summary, and
\* `return self.results['failed_tests'] == 0`; an OSError of mkdir or open is
\* caught nowhere, leaves main and ends the process
GenerateReport ==
    /\ pc = "report"
    /\ \/ /\ reportFile' = WriteReport(reportFile, json_dump(results))
          /\ success' = Some(results.failed_tests = 0)
          /\ pc' = "main_return"
          /\ UNCHANGED exitStatus
       \/ /\ exitStatus' = Some(UncaughtExceptionStatus)
          /\ pc' = "exited"
          /\ UNCHANGED <<reportFile, success>>
    /\ UNCHANGED <<results, idx, tmpdir, fs_tmp, captured, child, ret, exc, test_result,
                   events, execCount, compileCount, reportCalls>>
    /\ UNCHANGED <<testers, automation>>

\* main: return 0 if success else 1, handed to exit()
MainReturn ==
    /\ pc = "main_return"
    /\ exitStatus' = Some(IF The(success) THEN 0 ELSE 1)
    /\ pc' = "exited"
    /\ UNCHANGED <<results, idx, tmpdir, fs_tmp, captured, child, ret, exc, test_result,
                   events, execCount, compileCount, reportFile, reportCalls, success>>
    /\ UNCHANGED <<testers, automation>>

Next ==
    \/ LoopIter
    \/ WhichValgrind
    \/ MkTemp
    \/ WriteSource
    \/ Compile
    \/ Execute
    \/ RecordReturn
    \/ HandleException
    \/ AppendTestResult
    \/ LoopExit
    \/ GenerateReport
    \/ MainReturn

Spec == Init /\ [][Next]_vars

----------------------------------------------------------------------------
(* A caller that uses one MemorySafetyTester more than once: run_all_tests on
   an instance that has run before, generate_report called again *)

\* calls of generate_report the caller makes on one instance
MaxReportCalls == 2

\* self.results as an earlier run_all_tests on the same instance left it: the
\* first and last probe passed, the second raised, the third returned False
PriorRun ==
    [total_tests |-> Len(tests), passed_tests |-> 2, failed_tests |-> 2,
     tests |-> << ReturnResult(tests[1].name, TRUE),
                  CrashResult(tests[2].name, <<"Permission denied">>),
                  ReturnResult(tests[3].name, FALSE),
                  ReturnResult(tests[4].name, TRUE) >>]

\* run_all_tests is called on a fresh instance or on one that has run before
InitReuse ==
    /\ results \in {InitialResults, PriorRun}
    /\ pc = "loop"
    /\ idx = 1
    /\ tmpdir = None
    /\ fs_tmp = {}
    /\ captured = None
    /\ child = None
    /\ ret = None
    /\ exc = None
    /\ test_result = None
    /\ events = [n \in ProbeNames |-> {}]
    /\ execCount = [n \in ProbeNames |-> 0]
    /\ compileCount = [n \in ProbeNames |-> 0]
    /\ reportFile = None
    /\ reportCalls = 0
    /\ success = None
    /\ exitStatus = None
    /\ testers = <<>>
    /\ automation = <<>>

\* the caller calls tester.generate_report() again instead of returning
ReportAgain ==
    /\ pc = "main_return"
    /\ reportCalls < MaxReportCalls
    /\ pc' = "report"
    /\ reportCalls' = reportCalls + 1
    /\ UNCHANGED <<results, idx, tmpdir, fs_tmp, captured, child, ret, exc, test_result,
                   events, execCount, compileCount, reportFile, success, exitStatus>>
    /\ UNCHANGED <<testers, automation>>

NextReuse ==
    \/ Next
    \/ ReportAgain

SpecReuse == InitReuse /\ [][NextReuse]_vars

----------------------------------------------------------------------------
(* Two MemorySafetyTester instances whose steps interleave. Each has its own
   self.results and locals; generate_report of either writes the one file
   tests/results/memory_safety_report.json. A probe is one step here:
   test_func() returns a value or raises. *)

Instances == {1, 2}

\* what test_func() can do: return True or False, or raise an OSError
ProbeOutcomes ==
    {[raised |-> FALSE, value |-> b, msg |-> <<>>] : b \in BOOLEAN}
    \cup {[raised |-> TRUE, value |-> FALSE, msg |-> m] : m \in OSErrors}

\* MemorySafetyTester(): an instance with its own results, before run_all_tests
NewTester ==
    [results |-> InitialResults, pc |-> "loop", idx |-> 1, test_result |-> None,
     emitted |-> None, success |-> None]

InitTwo ==
    /\ results = InitialResults
    /\ pc = "loop"
    /\ idx = 1
    /\ tmpdir = None
    /\ fs_tmp = {}
    /\ captured = None
    /\ child = None
    /\ ret = None
    /\ exc = None
    /\ test_result = None
    /\ events = [n \in ProbeNames |-> {}]
    /\ execCount = [n \in ProbeNames |-> 0]
    /\ compileCount = [n \in ProbeNames |-> 0]
    /\ reportFile = None
    /\ reportCalls = 0
    /\ success = None
    /\ exitStatus = None
    /\ testers = [i \in Instances |-> NewTester]
    /\ automation = <<>>

\* for test_name, test_func in tests: self.results['total_tests'] += 1
TesterLoopIter(i) ==
    LET t == testers[i] IN
    /\ t.pc = "loop"
    /\ t.idx <= Len(tests)
    /\ testers' = [testers EXCEPT ![i] =
                      [t EXCEPT !.results = [@ EXCEPT !.total_tests = @ + 1],
                                !.test_result = None,
                                !.pc = "probe"]]
    /\ UNCHANGED <<results, pc, idx, tmpdir, fs_tmp, captured, child, ret, exc, test_result,
                   events, execCount, compileCount, reportFile, reportCalls, success,
                   exitStatus>>
    /\ UNCHANGED automation

\* success = test_func() and the try or the except block that follows it
TesterProbe(i) ==
    LET t == testers[i] IN
    /\ t.pc = "probe"
    /\ \E o \in ProbeOutcomes :
          testers' = [testers EXCEPT ![i] =
              IF o.raised
              THEN [t EXCEPT !.test_result = Some(CrashResult(tests[t.idx].name, o.msg)),
                             !.results = CountCrash(@),
                             !.pc = "append"]
              ELSE [t EXCEPT !.test_result = Some(ReturnResult(tests[t.idx].name, o.value)),
                             !.results = CountOutcome(@, o.value),
                             !.pc = "append"]]
    /\ UNCHANGED <<results, pc, idx, tmpdir, fs_tmp, captured, child, ret, exc, test_result,
                   events, execCount, compileCount, reportFile, reportCalls, success,
                   exitStatus>>
    /\ UNCHANGED automation

\* self.results['tests'].append(test_result), and on to the next test
TesterAppend(i) ==
    LET t == testers[i] IN
    /\ t.pc = "append"
    /\ testers' = [testers EXCEPT ![i] =
                      [t EXCEPT !.results = AppendResult(@, The(t.test_result)),
                                !.idx = @ + 1,
                                !.pc = "loop"]]
    /\ UNCHANGED <<results, pc, idx, tmpdir, fs_tmp, captured, child, ret, exc, test_result,
                   events, execCount, compileCount, reportFile, reportCalls, success,
                   exitStatus>>
    /\ UNCHANGED automation

\* run_all_tests returns and the instance's generate_report is called
TesterLoopExit(i) ==
    LET t == testers[i] IN
    /\ t.pc = "loop"
    /\ t.idx > Len(tests)
    /\ testers' = [testers EXCEPT ![i] = [t EXCEPT !.pc = "report"]]
    /\ UNCHANGED <<results, pc, idx, tmpdir, fs_tmp, captured, child, ret, exc, test_result,
                   events, execCount, compileCount, reportFile, reportCalls, success,
                   exitStatus>>
    /\ UNCHANGED automation

\* generate_report of instance i: its results go to the report file, whose path
\* does not depend on the instance; `emitted` keeps what this call wrote
TesterGenerateReport(i) ==
    LET t == testers[i] IN
    /\ t.pc = "report"
    /\ reportFile' = WriteReport(reportFile, json_dump(t.results))
    /\ testers' = [testers EXCEPT ![i] =
                      [t EXCEPT !.emitted = Some(json_dump(t.results)),
                                !.success = Some(t.results.failed_tests = 0),
                                !.pc = "done"]]
    /\ UNCHANGED <<results, pc, idx, tmpdir, fs_tmp, captured, child, ret, exc, test_result,
                   events, execCount, compileCount, reportCalls, success, exitStatus>>
    /\ UNCHANGED automation

NextTwo ==
    \/ \E i \in Instances : TesterLoopIter(i)
    \/ \E i \in Instances : TesterProbe(i)
    \/ \E i \in Instances : TesterAppend(i)
    \/ \E i \in Instances : TesterLoopExit(i)
    \/ \E i \in Instances : TesterGenerateReport(i)

SpecTwo == InitTwo /\ [][NextTwo]_vars

----------------------------------------------------------------------------
(* scripts/automation/razorfs_automation_script.py: run_command starts a child
   with stdout and stderr on two pipes and reads them in turn, one blocking
   readline on stdout, then one on stderr, until both return '' and the child
   has ended. A pipe holds a bounded amount; a line is the unit written and
   read. The child writes its lines in program order, blocks on a full pipe,
   closes both pipes when it ends and can then be waited for. *)

\* lines a pipe holds before a write to it blocks
PipeCapacity == 2
\* lines the child writes in all
MaxChildWrites == 4

\* the child's writes, in order: each one line to "out" or to "err"
ChildPrograms == UNION {[1..k -> {"out", "err"}] : k \in 0..MaxChildWrites}

\* the k-th line the child writes, newline included
Line(k) == <<k>>

\* readline() at end of file returns ''
EOF == <<>>

\* "".join(lines)
RECURSIVE Join(_)
Join(lines) == IF lines = <<>> THEN <<>> ELSE Head(lines) \o Join(Tail(lines))

\* process = subprocess.Popen(...); stdout_lines = []; stderr_lines = []
NewCommand(program, rc, check_return) ==
    [program |-> program, next |-> 1, cstate |-> "running", rc |-> rc,
     check_return |-> check_return, out |-> <<>>, err |-> <<>>, ppc |-> "read_out",
     stdout_line |-> EOF, stderr_line |-> EOF, stdout_lines |-> <<>>,
     stderr_lines |-> <<>>, return_code |-> None, returned |-> None, exited |-> None]

\* every variable of the harness model, which the automation script leaves alone
harnessVars == <<results, pc, idx, tmpdir, fs_tmp, captured, child, ret, exc, test_result,
                 events, execCount, compileCount, reportFile, reportCalls, success,
                 exitStatus, testers>>

InitAutomation ==
    /\ results = InitialResults
    /\ pc = "loop"
    /\ idx = 1
    /\ tmpdir = None
    /\ fs_tmp = {}
    /\ captured = None
    /\ child = None
    /\ ret = None
    /\ exc = None
    /\ test_result = None
    /\ events = [n \in ProbeNames |-> {}]
    /\ execCount = [n \in ProbeNames |-> 0]
    /\ compileCount = [n \in ProbeNames |-> 0]
    /\ reportFile = None
    /\ reportCalls = 0
    /\ success = None
    /\ exitStatus = None
    /\ testers = <<>>
    /\ \E program \in ChildPrograms, rc \in ExitCodes, check_return \in BOOLEAN :
          automation = NewCommand(program, rc, check_return)

\* the child writes its next line; the write blocks while the pipe is full
ChildWrite ==
    LET a == automation IN
    /\ a.cstate = "running"
    /\ a.next <= Len(a.program)
    /\ \/ /\ a.program[a.next] = "out"
          /\ Len(a.out) < PipeCapacity
          /\ automation' = [a EXCEPT !.out = Append(@, Line(a.next)), !.next = @ + 1]
       \/ /\ a.program[a.next] = "err"
          /\ Len(a.err) < PipeCapacity
          /\ automation' = [a EXCEPT !.err = Append(@, Line(a.next)), !.next = @ + 1]
    /\ UNCHANGED harnessVars

\* the child has written everything and ends: its ends of both pipes close
ChildClose ==
    LET a == automation IN
    /\ a.cstate = "running"
    /\ a.next > Len(a.program)
    /\ automation' = [a EXCEPT !.cstate = "closed"]
    /\ UNCHANGED harnessVars

\* the ended child becomes visible to poll() and wait()
ChildTerminate ==
    LET a == automation IN
    /\ a.cstate = "closed"
    /\ automation' = [a EXCEPT !.cstate = "exited"]
    /\ UNCHANGED harnessVars

\* stdout_line = process.stdout.readline(): blocks until a line is there or
\* the write end is closed
ReadStdout ==
    LET a == automation IN
    /\ a.ppc = "read_out"
    /\ a.out # <<>> \/ a.cstate # "running"
    /\ automation' =
          IF a.out # <<>>
          THEN [a EXCEPT !.stdout_line = Head(a.out), !.out = Tail(@), !.ppc = "read_err"]
          ELSE [a EXCEPT !.stdout_line = EOF, !.ppc = "read_err"]
    /\ UNCHANGED harnessVars

\* stderr_line = process.stderr.readline()
ReadStderr ==
    LET a == automation IN
    /\ a.ppc = "read_err"
    /\ a.err # <<>> \/ a.cstate # "running"
    /\ automation' =
          IF a.err # <<>>
          THEN [a EXCEPT !.stderr_line = Head(a.err), !.err = Tail(@), !.ppc = "check"]
          ELSE [a EXCEPT !.stderr_line = EOF, !.ppc = "check"]
    /\ UNCHANGED harnessVars

\* the two appends, and `if not stdout_line and not stderr_line and
\* process.poll() is not None: break`
CheckLines ==
    LET a == automation IN
    /\ a.ppc = "check"
    /\ automation' =
          [a EXCEPT
             !.stdout_lines = IF a.stdout_line # EOF THEN Append(@, a.stdout_line) ELSE @,
             !.stderr_lines = IF a.stderr_line # EOF THEN Append(@, a.stderr_line) ELSE @,
             !.ppc = IF a.stdout_line = EOF /\ a.stderr_line = EOF /\ a.cstate = "exited"
                     THEN "wait" ELSE "read_out"]
    /\ UNCHANGED harnessVars

\* return_code = process.wait()
WaitChild ==
    LET a == automation IN
    /\ a.ppc = "wait"
    /\ a.cstate = "exited"
    /\ automation' = [a EXCEPT !.return_code = Some(a.rc), !.ppc = "finish"]
    /\ UNCHANGED harnessVars

\* exit(1) if check_return and return_code != 0, else the tuple is returned
ReturnOrExit ==
    LET a == automation IN
    /\ a.ppc = "finish"
    /\ automation' =
          IF a.check_return /\ The(a.return_code) # 0
          THEN [a EXCEPT !.exited = Some(1), !.ppc = "exited"]
          ELSE [a EXCEPT !.returned = Some(<<The(a.return_code), Join(a.stdout_lines),
                                             Join(a.stderr_lines)>>),
                         !.ppc = "returned"]
    /\ UNCHANGED harnessVars

NextAutomation ==
    \/ ChildWrite
    \/ ChildClose
    \/ ChildTerminate
    \/ ReadStdout
    \/ ReadStderr
    \/ CheckLines
    \/ WaitChild
    \/ ReturnOrExit

SpecAutomation == InitAutomation /\ [][NextAutomation]_vars

----------------------------------------------------------------------------
(* Properties *)

\* positions of the report entries bearing probe name n
Entries(n) == {i \in 1..Len(results.tests) : results.tests[i].name = n}

\* the report entry of probe n, once recorded
Outcome(n) == results.tests[CHOOSE i \in Entries(n) : TRUE]

\* run_all_tests has returned
RunFinished == pc \in {"report", "main_return", "exited"}

\* C1: when generate_report is entered, total_tests = passed_tests + failed_tests
\* and len(tests) = total_tests, whatever each probe did (returned True,
\* returned False, or raised).
C1_CountsConsistent ==
    pc = "report" =>
        /\ results.total_tests = results.passed_tests + results.failed_tests
        /\ Len(results.tests) = results.total_tests

\* generate_report is entered after a run in which one probe returned True, one
\* returned False and one raised
C1_Witness ==
    /\ pc = "report"
    /\ \E i, j, k \in 1..Len(results.tests) :
         /\ results.tests[i].passed
         /\ ~results.tests[j].passed /\ results.tests[j].error = None
         /\ results.tests[k].error # None

\* C2: by the end of run_all_tests every registered probe has exactly one report
\* entry bearing its name, whichever stage ended its pipeline.
C2_ExactlyOneOutcome ==
    RunFinished => \A n \in ProbeNames : Cardinality(Entries(n)) = 1

\* run_all_tests has ended after a compile failure, an execution timeout, an
\* exception and a skip, one per probe
C2_Witness ==
    /\ pc = "report"
    /\ "compile_failed" \in events["Buffer Overflow Detection"]
    /\ "timed_out" \in events["Memory Leak Detection"]
    /\ "raised" \in events["NULL Pointer Safety"]
    /\ "tool_missing" \in events["Valgrind Integration"]

\* C4: a probe whose compile step failed (non-zero exit, missing compiler, or
\* compile timeout) never has its binary executed, in any of the four probes.
C4_NoExecuteAfterCompileFailure ==
    \A n \in ProbeNames : "compile_failed" \in events[n] => execCount[n] = 0

\* the compile step of all four probes failed, the last one by a timeout of the
\* compile command, and the run went on to its end
C4_Witness ==
    /\ RunFinished
    /\ \A n \in ProbeNames : "compile_failed" \in events[n] /\ compileCount[n] = 1
    /\ The(captured)[3] = TimedOutText

\* C3: the harness process exits 0 when failed_tests = 0 after the run and
\* non-zero otherwise, in every run, also when the reporting step fails.
C3_ExitStatusFollowsFailedTests ==
    pc = "exited" => (The(exitStatus) = 0 <=> results.failed_tests = 0)

\* the probe whose report entry was appended last, with the probe's locals
\* (captured) still as it left them
JustRecorded == pc = "loop" /\ idx > 1
Last == tests[idx - 1]
LastOutcome == results.tests[idx - 1]

\* C5: a probe whose compile step failed is recorded with passed = false and
\* with the compiler's diagnostic text in the 'error' field of its entry.
C5_CompileFailureCarriesDiagnostic ==
    (JustRecorded /\ "compile_failed" \in events[Last.name]) =>
        /\ LastOutcome.passed = FALSE
        /\ LastOutcome.error = Some(The(captured)[3])

\* C6: a probe whose execution timed out is recorded with passed = false and a
\* detail that contains a timeout indicator, and its temporary directory no
\* longer exists.
C6_TimeoutRecordedWithIndicator ==
    (JustRecorded /\ "timed_out" \in events[Last.name]) =>
        /\ LastOutcome.passed = FALSE
        /\ LastOutcome.error # None
        /\ Contains(The(LastOutcome.error), TimedOutText)
        /\ fs_tmp = {}

\* the probes that expect detection, and those that expect safe completion
DetectionProbes == {"test_buffer_overflow_detection", "test_memory_leak_detection"}
SafeProbes == {"test_null_pointer_safety", "test_valgrind_integration"}

\* a recognized fault signature in the captured output: the sanitizer's banner
\* on stderr, or for the leak probe the allocation tracker's report on stdout
HasFaultSignature(func, r) ==
    IF func = "test_buffer_overflow_detection"
    THEN \E sig \in {"AddressSanitizer", "buffer-overflow"} : Contains(r[3], <<sig>>)
    ELSE \/ Contains(r[3], <<"LeakSanitizer">>)
         \/ Contains(r[2], <<"Memory leak">>)
         \/ Contains(r[2], <<"Memory leak", " detected">>)

\* C7: a detection probe that compiled passes if and only if the captured
\* output holds a recognized fault signature, whatever the exit code, and
\* without a signature it is recorded failed with detail "fault not detected".
C7_DetectionBySignature ==
    (JustRecorded /\ Last.func \in DetectionProbes /\ "compiled" \in events[Last.name]) =>
        /\ LastOutcome.passed <=> HasFaultSignature(Last.func, The(captured))
        /\ ~HasFaultSignature(Last.func, The(captured)) =>
              /\ LastOutcome.passed = FALSE
              /\ LastOutcome.error = Some(<<"fault not detected">>)

\* C8: a safe-completion probe (NULL pointer, Valgrind run) that compiled passes
\* if and only if the exit code is zero and stdout holds the success marker; a
\* non-zero exit or a timeout is recorded failed with the captured diagnostic
\* as detail.
C8_SafeCompletionByExitAndMarker ==
    (JustRecorded /\ Last.func \in SafeProbes /\ "compiled" \in events[Last.name]) =>
        LET r == The(captured) IN
        /\ LastOutcome.passed <=> (r[1] = 0 /\ Contains(r[2], <<"ALL TESTS PASSED">>))
        /\ r[1] # 0 =>
              /\ LastOutcome.passed = FALSE
              /\ LastOutcome.error = Some(r[3])

\* failed report entries among the first k
FailedAmong(k) == Cardinality({i \in 1..k : ~results.tests[i].passed})

\* C9: with valgrind absent, the Valgrind probe is recorded passed with a
\* non-null warning detail, it does not add to failed_tests, and neither the
\* compiler nor the binary is run for it.
C9_MissingToolPassesWithWarning ==
    (JustRecorded /\ "tool_missing" \in events[Last.name]) =>
        /\ LastOutcome.passed = TRUE
        /\ LastOutcome.error # None
        /\ results.failed_tests = FailedAmong(idx - 2)
        /\ compileCount[Last.name] = 0
        /\ execCount[Last.name] = 0

\* C12: an exception raised inside a probe is caught in run_all_tests and
\* recorded as passed = false with the exception's message as 'error';
\* failed_tests goes up by exactly one and passed_tests stays for that probe,
\* and every probe registered after it is still run and recorded.
C12_CrashBecomesFailedOutcome ==
    /\ (pc = "append" /\ exc # None) =>
          /\ The(test_result) = [name |-> cur.name, passed |-> FALSE, error |-> exc]
          /\ results.failed_tests = FailedAmong(idx - 1) + 1
          /\ results.passed_tests = (idx - 1) - FailedAmong(idx - 1)
    /\ (JustRecorded /\ "raised" \in events[Last.name]) =>
          /\ LastOutcome = [name |-> Last.name, passed |-> FALSE, error |-> exc]
          /\ results.failed_tests = FailedAmong(idx - 1)
          /\ results.passed_tests = (idx - 1) - FailedAmong(idx - 1)
    /\ RunFinished =>
          \A n \in ProbeNames : events[n] # {} /\ Entries(n) # {}

\* the first probe raised, the second ran its binary, and the run ended with
\* the first one's message in the report
C12_Witness ==
    /\ pc = "report"
    /\ "raised" \in events[tests[1].name]
    /\ "executed" \in events[tests[2].name]
    /\ results.tests[1].error = Some(<<"No space left on device">>)
    /\ Len(results.tests) = Len(tests)

\* the positions of the harness inside a probe's pipeline
InProbe == {"which", "mktemp", "write", "compile", "execute", "returned", "except", "append"}

\* C13: report entries are in registration order, and the pipeline of a probe
\* does not start before the outcome of every earlier probe has been appended.
C13_RegistrationOrder ==
    /\ \A k \in 1..Len(results.tests) : results.tests[k].name = tests[k].name
    /\ \A j \in 1..Len(tests) :
          events[tests[j].name] # {} => Len(results.tests) >= j - 1
    /\ pc \in InProbe => Len(results.tests) = idx - 1

\* the third probe is in its pipeline with the first two outcomes appended
C13_Witness ==
    /\ pc = "compile"
    /\ idx = 3
    /\ Len(results.tests) = 2
    /\ events[tests[3].name] # {}

\* C14: a probe's temporary directory is removed on every way out of the probe;
\* once the outcome is determined none exists, at most one exists at any time
\* and it belongs to the running probe alone.
C14_TempDirReleased ==
    /\ fs_tmp = tmpdir
    /\ Cardinality(fs_tmp) <= 1
    /\ pc \notin {"write", "compile", "execute"} => fs_tmp = {}

\* a probe that had its directory raised, and the directory is gone when the
\* exception reaches run_all_tests
C14_Witness ==
    /\ pc = "except"
    /\ {"tmpdir", "raised"} \subseteq events[cur.name]
    /\ fs_tmp = {}

\* C15: run_command returns a result for whatever the child did: a timeout is
\* returned as a result marked timed out, which no result of a child that
\* exited looks like, and a spawn error is returned as a result too; a probe's
\* exception never comes out of a command.
C15_RunCommandReturnsMarkedResult ==
    /\ child # None =>
          LET o == The(child)
              r == The(captured) IN
          /\ o.kind = "timeout" <=> (r[1] = 0 - 1 /\ r[3] = TimedOutText)
          /\ o.kind = "exit" => (r = <<o.rc, o.out, o.err>> /\ r[1] >= 0)
          /\ o.kind = "error" => r = <<0 - 1, <<>>, o.err>>
    /\ \A n \in ProbeNames :
          "raised" \in events[n] => compileCount[n] = 0 /\ execCount[n] = 0

\* the compile command of a probe timed out and the probe returned
C15_Witness ==
    /\ pc = "returned"
    /\ child = Some(TimeoutExpired)
    /\ captured = Some(<<0 - 1, <<>>, TimedOutText>>)
    /\ compileCount[cur.name] = 1

\* C18: an entry's 'error' is non-null exactly when the probe method raised,
\* and then passed is false; failures reported by return value (compile
\* failure, timeout, missing signature, non-zero exit) and skips have a null
\* 'error'.
C18_ErrorOnlyForExceptions ==
    \A k \in 1..Len(results.tests) :
        LET e == results.tests[k] IN
        /\ e.error # None <=> "raised" \in events[e.name]
        /\ e.error # None => e.passed = FALSE
        /\ events[e.name] \cap {"compile_failed", "timed_out", "executed",
                                "tool_missing", "which_broken"} # {} => e.error = None

\* a run with a compile failure, a timeout, an exception and a skip: only the
\* exception's entry has an 'error'
C18_Witness ==
    /\ RunFinished
    /\ "compile_failed" \in events[tests[1].name] /\ results.tests[1].error = None
    /\ "timed_out" \in events[tests[2].name] /\ ~results.tests[2].passed
    /\ "raised" \in events[tests[3].name] /\ results.tests[3].error # None
    /\ "tool_missing" \in events[tests[4].name] /\ results.tests[4].error = None

\* C19: in test_memory_leak_detection the fallback on the tracker's text never
\* succeeds: when leak_detected is false, "Memory leak detected" is not in
\* stdout either, so a compiled probe passes exactly when leak_detected is true.
C19_LeakFallbackNeverSucceeds ==
    (JustRecorded /\ Last.func = "test_memory_leak_detection"
                  /\ "compiled" \in events[Last.name]) =>
        LET r == The(captured) IN
        /\ ~leak_detected(r) => ~Contains(r[2], <<"Memory leak", " detected">>)
        /\ LastOutcome.passed <=> leak_detected(r)

\* the leak probe ran, no marker was found and the fallback returned False
C19_Witness ==
    /\ JustRecorded
    /\ Last.func = "test_memory_leak_detection"
    /\ "executed" \in events[Last.name]
    /\ The(captured)[2] = <<" detected", "ALL TESTS PASSED">>
    /\ ~leak_detected(The(captured))
    /\ LastOutcome.passed = FALSE

\* C20: whatever makes `which valgrind` fail (non-zero exit, timeout, spawn
\* error) reaches the probe as a non-zero returncode and is taken as the tool
\* being absent: the probe passes, and nothing is compiled or executed.
C20_PresenceFailureTreatedAsAbsent ==
    (JustRecorded /\ events[Last.name] \cap {"tool_missing", "which_broken"} # {}) =>
        /\ The(captured)[1] # 0
        /\ LastOutcome.passed = TRUE
        /\ compileCount[Last.name] = 0
        /\ execCount[Last.name] = 0
        /\ "tmpdir" \notin events[Last.name]

\* `which valgrind` timed out, which says nothing about the tool, and the
\* probe is recorded as passed
C20_Witness ==
    /\ JustRecorded
    /\ "which_broken" \in events[Last.name]
    /\ child = Some(TimeoutExpired)
    /\ LastOutcome.passed = TRUE

\* C11: generate_report is idempotent: a second call on the same report
\* writes the same text, returns the same value and leaves the counts and the
\* list of outcomes as they were.
C11_ReportIdempotent ==
    [][(pc = "report" /\ pc' = "main_return") =>
          /\ results' = results
          /\ reportFile' = Some(json_dump(results))
          /\ reportFile # None => (reportFile' = reportFile /\ success' = success)]_vars

\* generate_report has returned twice on a report with failures in it
C11_Witness ==
    /\ pc = "main_return"
    /\ reportCalls = 2
    /\ reportFile = Some(json_dump(results))
    /\ results.failed_tests > 0
    /\ success = Some(FALSE)

\* the positions of the harness between two probes, and after the last one
AtProbeBoundary == pc \in {"loop", "report", "main_return", "exited"}

\* the counters against the length of the list of outcomes
C17_CounterBounds ==
    LET n  == Len(results.tests)
        pf == results.passed_tests + results.failed_tests
        t  == results.total_tests IN
    /\ n <= pf /\ pf <= t /\ t <= n + 1
    /\ (n = pf /\ pf = t) <=> AtProbeBoundary

\* one step never lowers a counter and only appends to the list of outcomes
C17_Monotone ==
    /\ results'.total_tests >= results.total_tests
    /\ results'.passed_tests >= results.passed_tests
    /\ results'.failed_tests >= results.failed_tests
    /\ Len(results'.tests) >= Len(results.tests)
    /\ SubSeq(results'.tests, 1, Len(results.tests)) = results.tests

\* C17: in every state of run_all_tests, in the middle of a probe and on an
\* instance that has run before, len(tests) <= passed_tests + failed_tests <=
\* total_tests <= len(tests) + 1, with all three equal exactly between probes;
\* the counters never decrease and the list is only appended to.
C17_CountersBoundedAndMonotone ==
    []C17_CounterBounds /\ [][C17_Monotone]_vars

\* on an instance that has run before, a probe has returned and is counted in
\* total_tests but not yet in passed_tests or failed_tests
C17_Witness ==
    /\ pc = "returned"
    /\ idx = 2
    /\ Len(results.tests) = Len(tests) + 1
    /\ results.passed_tests + results.failed_tests = Len(results.tests)
    /\ results.total_tests = Len(results.tests) + 1

\* the outcomes instance i has recorded are those of its own probes, in order
OwnOutcomes(i) ==
    LET t == testers[i] IN
    \A k \in 1..Len(t.results.tests) : t.results.tests[k].name = tests[k].name

\* C16: two runs whose steps interleave do not interfere: the report of each,
\* as accumulated in memory and as emitted by its own generate_report, holds
\* the outcomes of its own probes whatever the other run does. For the emitted
\* report: once an instance has reported, the report file holds its results.
C16_RunsDoNotInterfere ==
    \A i \in Instances :
        /\ OwnOutcomes(i)
        /\ testers[i].pc = "done" =>
              /\ testers[i].emitted = Some(json_dump(testers[i].results))
              /\ reportFile = testers[i].emitted

\* run_command sits in a readline on a pipe that is empty and still open
ParentBlocked ==
    \/ automation.ppc = "read_out" /\ automation.out = <<>> /\ automation.cstate = "running"
    \/ automation.ppc = "read_err" /\ automation.err = <<>> /\ automation.cstate = "running"

\* the child sits in a write to a pipe that is full
ChildBlocked ==
    /\ automation.cstate = "running"
    /\ automation.next <= Len(automation.program)
    /\ \/ automation.program[automation.next] = "out"
          /\ Len(automation.out) = PipeCapacity
       \/ automation.program[automation.next] = "err"
          /\ Len(automation.err) = PipeCapacity

\* C21: whatever the child writes to the two bounded pipes and in whatever
\* order, run_command and its child are never both blocked, the one in a
\* readline and the other in a write: such a state has no successor, so
\* run_command would never return although the child, once drained, would end.
C21_NeverBothBlocked == ~(ParentBlocked /\ ChildBlocked)

====
